---- MODULE Spec2Model ----
(***************************************************************************)
(* Model of src/dawn_db_wrapper.cpp: the native entry point                *)
(* luaopen_dawn_db, which loads the precompiled unit at a fixed path with  *)
(* luaL_loadfile, runs it once with lua_pcall(L, 0, 1, 0) and returns 1,   *)
(* raising a formatted error through luaL_error when either step fails.    *)
(*                                                                         *)
(* The execution context L is modelled by its value stack and one global   *)
(* variable that loaded units may touch; the file system by the content    *)
(* found at each path.  The host calls the entry point repeatedly, and the *)
(* file at the module path may be rewritten by the environment at any time.*)
(***************************************************************************)
EXTENDS Integers, Sequences, FiniteSets, TLC

VARIABLES
    pc,       \* position of the current call of luaopen_dawn_db
    stack,    \* value stack of L, as seen by the current call
    base,     \* the stack as it was when the current call was entered
    path,     \* the local `path` of the current call
    caller,   \* kind of function that called the entry point (for luaL_where)
    G,        \* the global of L that a loaded unit may read and write
    g0,       \* G as it was when the current call was entered
    fs,       \* file system: content found at each path
    loaded,   \* index of the unit produced by luaL_loadfile in this call, 0 if none
    usedPath, \* the path handed to luaL_loadfile in this call, <<>> if none yet
    nload,    \* number of luaL_loadfile invocations in this call
    nexec,    \* number of lua_pcall invocations in this call
    callArgs, \* <<nargs, nresults>> of the last lua_pcall of this call
    raised,   \* message of the error raised by this call, <<>> if none
    ret,      \* value returned by this call (0: the call has not returned)
    lstatus,  \* status luaL_loadfile returned in this call, "" if not called
    xstatus,  \* status lua_pcall returned in this call, "" if not called
    calls,    \* number of calls the host has made
    prev      \* outcome of the previous call

vars == <<pc, stack, base, path, caller, G, g0, fs, loaded, usedPath, nload,
          nexec, callArgs, raised, ret, lstatus, xstatus, calls, prev>>

----------------------------------------------------------------------------
(* Bounds *)

MaxCalls == 3

----------------------------------------------------------------------------
(* Lua values.  Strings are sequences of text pieces, so that formatting   *)
(* and concatenation are computed and not assumed.                         *)

S(x)   == [t |-> "string",   s |-> x,    n |-> 0]
N(k)   == [t |-> "number",   s |-> <<>>, n |-> k]
T(k)   == [t |-> "table",    s |-> <<>>, n |-> k]
F(i)   == [t |-> "function", s |-> <<>>, n |-> i]
Nil    == [t |-> "nil",      s |-> <<>>, n |-> 0]

ModulePath == <<"/usr/local/share/lua/5.1/dawn_db.luac">>
AltPath    == <<"./dawn_db.luac">>
Paths      == {ModulePath, AltPath}

(* Precompiled units the module file may hold: what their top-level code   *)
(* does when run.                                                          *)
Units ==
    << [kind |-> "ret",      rets |-> <<T(1)>>,       err |-> Nil, init |-> 0],
       [kind |-> "ret",      rets |-> <<>>,           err |-> Nil, init |-> 0],
       [kind |-> "ret",      rets |-> <<T(1), N(7)>>, err |-> Nil, init |-> 0],
       [kind |-> "fault",    rets |-> <<>>, init |-> 0,
        err  |-> S(<<"dawn_db.lua:3: attempt to call global 'connect' (a nil value)">>)],
       [kind |-> "fault",    rets |-> <<>>, err |-> T(2),  init |-> 0],
       [kind |-> "fault",    rets |-> <<>>, err |-> N(42), init |-> 0],
       [kind |-> "counter",  rets |-> <<>>, err |-> Nil, init |-> 0],
       [kind |-> "gcounter", rets |-> <<>>, err |-> Nil, init |-> 0],
       [kind |-> "ret",      rets |-> <<T(3)>>,       err |-> Nil, init |-> 0] >>

UnitIds == 1 .. Len(Units)
AltUnit == Len(Units)

File(k, u) == [k |-> k, u |-> u]
BadFiles == {File("missing", 0), File("unreadable", 0),
             File("malformed", 0), File("incompatible", 0)}
FileContents == BadFiles \cup {File("unit", u) : u \in UnitIds \ {AltUnit}}

EntryStacks == { <<>>, <<S(<<"dawn_db">>)>>, <<S(<<"dawn_db">>), S(AltPath)>> }
Callers == {"C", "Lua"}
Finals == {"Done", "ParseFailure", "ExecutionFailure"}

NoPrev == [pc |-> "idle", unit |-> 0, g0 |-> 0, val |-> Nil, raised |-> <<>>]

----------------------------------------------------------------------------
(* The runtime library calls the entry point makes. *)

Top(stk) == stk[Len(stk)]

Where(c) == IF c = "Lua" THEN <<"host.lua:1: ">> ELSE <<>>

(* lua_tostring: a string is returned as it is, a number is converted to   *)
(* its decimal text, any other value gives a null pointer.                 *)
lua_tostring(v) ==
    IF v.t = "string" THEN [null |-> FALSE, str |-> v.s]
    ELSE IF v.t = "number" THEN [null |-> FALSE, str |-> <<ToString(v.n)>>]
    ELSE [null |-> TRUE, str |-> <<>>]

(* The %s conversion of lua_pushvfstring. *)
FmtS(p) == IF p.null THEN <<"(null)">> ELSE p.str

(* luaL_error(L, prefix .. "%s", arg): position of the caller, then the    *)
(* formatted text.                                                         *)
luaL_error(c, prefix, p) == Where(c) \o <<prefix>> \o FmtS(p)

LoadPrefix == "Failed to load dawn_db.luac: "
RunPrefix  == "Error running dawn_db.luac: "

LoadDiag(p, k) ==
    CASE k = "missing"      -> <<"cannot open ">> \o p \o <<": No such file or directory">>
      [] k = "unreadable"   -> <<"cannot open ">> \o p \o <<": Permission denied">>
      [] k = "malformed"    -> p \o <<": bad header in precompiled chunk">>
      [] k = "incompatible" -> p \o <<": version mismatch in precompiled chunk">>

(* luaL_loadfile(L, p): pushes the compiled unit, or the diagnostic.       *)
luaL_loadfile(stk, files, p) ==
    LET c == files[p] IN
    IF c.k = "unit"
    THEN [status |-> "LUA_OK", stack |-> Append(stk, F(c.u)), unit |-> c.u]
    ELSE [status |-> IF c.k \in {"missing", "unreadable"}
                     THEN "LUA_ERRFILE" ELSE "LUA_ERRSYNTAX",
          stack  |-> Append(stk, S(LoadDiag(p, c.k))), unit |-> 0]

(* What running the top-level code of unit u does, given the global g. *)
RunUnit(u, g) ==
    CASE u.kind = "ret"      -> [ok |-> TRUE,  vals |-> u.rets, err |-> Nil, g |-> g]
      [] u.kind = "fault"    -> [ok |-> FALSE, vals |-> <<>>, err |-> u.err, g |-> g]
      [] u.kind = "counter"  -> [ok |-> TRUE,  vals |-> <<N(u.init + 1)>>,
                                 err |-> Nil, g |-> g]
      [] u.kind = "gcounter" -> [ok |-> TRUE,  vals |-> <<N(g + 1)>>,
                                 err |-> Nil, g |-> g + 1]

(* Adjustment of a result list to nresults values (-1: LUA_MULTRET). *)
Adjust(vals, nresults) ==
    IF nresults < 0 THEN vals
    ELSE [i \in 1 .. nresults |-> IF i <= Len(vals) THEN vals[i] ELSE Nil]

(* lua_pcall(L, nargs, nresults, 0): pops the function and its arguments,  *)
(* pushes the adjusted results, or the error value.                        *)
lua_pcall(stk, nargs, nresults, g) ==
    LET fi    == Len(stk) - nargs
        f     == stk[fi]
        below == SubSeq(stk, 1, fi - 1)
        r     == RunUnit(Units[f.n], g)
    IN  IF f.t # "function"
        THEN [status |-> "LUA_ERRRUN", g |-> g,
              stack  |-> Append(below, S(<<"attempt to call a ", f.t, " value">>))]
        ELSE IF r.ok
        THEN [status |-> "LUA_OK", g |-> r.g,
              stack  |-> below \o Adjust(r.vals, nresults)]
        ELSE [status |-> "LUA_ERRRUN", g |-> r.g,
              stack  |-> Append(below, r.err)]

(* The value of the stack slot after lua_tostring has looked at it: a      *)
(* number is converted in place.                                           *)
Converted(v) == IF v.t = "number" THEN S(lua_tostring(v).str) ELSE v

----------------------------------------------------------------------------
(* The program *)

Init ==
    /\ pc = "idle"
    /\ stack = <<>>
    /\ base = <<>>
    /\ path = <<>>
    /\ caller = "C"
    /\ G = 0
    /\ g0 = 0
    /\ fs \in {f \in [Paths -> FileContents \cup {File("unit", AltUnit)}] :
                 f[AltPath] = File("unit", AltUnit) /\ f[ModulePath] \in FileContents}
    /\ loaded = 0
    /\ usedPath = <<>>
    /\ nload = 0
    /\ nexec = 0
    /\ callArgs = <<0, 0>>
    /\ raised = <<>>
    /\ ret = 0
    /\ lstatus = ""
    /\ xstatus = ""
    /\ calls = 0
    /\ prev = NoPrev

(* Lines 7-8: the host enters luaopen_dawn_db with some stack; the local   *)
(* path is initialised.                                                    *)
Enter(entry, c, p) ==
    /\ pc = "idle"
    /\ calls < MaxCalls
    /\ pc' = "Parsing"
    /\ stack' = entry
    /\ base' = entry
    /\ path' = p
    /\ caller' = c
    /\ g0' = G
    /\ calls' = calls + 1
    /\ UNCHANGED <<G, fs, loaded, usedPath, nload, nexec, callArgs, raised,
                   ret, lstatus, xstatus, prev>>

Call_argpath(entry, c) ==
    /\ pc = "idle"
    /\ Enter(entry, c, IF Len(entry) > 0 /\ Top(entry).s \in Paths
                       THEN Top(entry).s ELSE ModulePath)

(* Line 8: the path is the literal. *)
Call(entry, c) ==
    /\ pc = "idle"
    /\ Enter(entry, c, ModulePath)

(* Line 10: luaL_loadfile(L, path) is called `times` times with result r;  *)
(* with `raise`, line 11 raises the error.                                 *)
LoadStep(r, times, next, raise) ==
    /\ pc = "Parsing"
    /\ pc' = next
    /\ nload' = nload + times
    /\ usedPath' = path
    /\ loaded' = r.unit
    /\ lstatus' = r.status
    /\ raised' = IF raise
                 THEN luaL_error(caller, LoadPrefix, lua_tostring(Top(r.stack)))
                 ELSE raised
    /\ stack' = IF raise
                THEN Append(SubSeq(r.stack, 1, Len(r.stack) - 1),
                            Converted(Top(r.stack))) \o <<S(raised')>>
                ELSE r.stack
    /\ UNCHANGED <<base, path, caller, G, g0, fs, nexec, callArgs, ret,
                   xstatus, calls, prev>>

LoadOk_twice ==
    /\ pc = "Parsing"
    /\ LET r == luaL_loadfile(stack, fs, path) IN
       r.status = "LUA_OK" /\ LoadStep(r, 2, "Executing", FALSE)

LoadOk_cached ==
    /\ pc = "Parsing"
    /\ LET r == IF prev.unit # 0
                THEN [status |-> "LUA_OK", stack |-> Append(stack, F(prev.unit)),
                      unit |-> prev.unit]
                ELSE luaL_loadfile(stack, fs, path)
       IN r.status = "LUA_OK" /\ LoadStep(r, 1, "Executing", FALSE)

(* Line 10, luaL_loadfile returned LUA_OK: go on to line 14. *)
LoadOk ==
    /\ pc = "Parsing"
    /\ LET r == luaL_loadfile(stack, fs, path) IN
       r.status = "LUA_OK" /\ LoadStep(r, 1, "Executing", FALSE)

LoadFail_ignored ==
    /\ pc = "Parsing"
    /\ LET r == luaL_loadfile(stack, fs, path) IN
       r.status # "LUA_OK" /\ LoadStep(r, 1, "Executing", FALSE)

LoadFail_wait ==
    /\ pc = "Parsing"
    /\ luaL_loadfile(stack, fs, path).status # "LUA_OK"
    /\ UNCHANGED vars

(* Lines 10-11, luaL_loadfile failed: luaL_error raises the message built  *)
(* from the diagnostic on top of the stack; the call never returns.        *)
LoadFail ==
    /\ pc = "Parsing"
    /\ LET r == luaL_loadfile(stack, fs, path) IN
       r.status # "LUA_OK" /\ LoadStep(r, 1, "ParseFailure", TRUE)

(* Line 14: lua_pcall(L, nargs, nresults, 0) with result r; then line 19   *)
(* (return 1) or line 15 (luaL_error).                                     *)
ExecStep(nargs, nresults, ok, next) ==
    LET r == lua_pcall(stack, nargs, nresults, G) IN
    /\ pc = "Executing"
    /\ (r.status = "LUA_OK") = ok
    /\ pc' = next
    /\ nexec' = nexec + 1
    /\ callArgs' = <<nargs, nresults>>
    /\ xstatus' = r.status
    /\ G' = r.g
    /\ raised' = IF next = "ExecutionFailure"
                 THEN luaL_error(caller, RunPrefix, lua_tostring(Top(r.stack)))
                 ELSE raised
    /\ stack' = IF next = "ExecutionFailure"
                THEN Append(SubSeq(r.stack, 1, Len(r.stack) - 1),
                            Converted(Top(r.stack))) \o <<S(raised')>>
                ELSE r.stack
    /\ ret' = IF next = "Done" THEN 1 ELSE ret
    /\ UNCHANGED <<base, path, caller, g0, fs, loaded, usedPath, nload,
                   lstatus, calls, prev>>

ExecOk_noresult ==
    /\ pc = "Executing"
    /\ ExecStep(0, 0, TRUE, "Done")

ExecOk_multret ==
    /\ pc = "Executing"
    /\ ExecStep(0, -1, TRUE, "Done")

(* Lines 14 and 19: the unit ran without a fault; return 1. *)
ExecOk ==
    /\ pc = "Executing"
    /\ ExecStep(0, 1, TRUE, "Done")

ExecFail_retry ==
    /\ pc = "Executing"
    /\ IF nload < 2
       THEN ExecStep(0, 1, FALSE, "Parsing")
       ELSE ExecStep(0, 1, FALSE, "ExecutionFailure")

(* Lines 14-15: the unit raised a fault; luaL_error raises the message     *)
(* built from the error value on top of the stack.                         *)
ExecFail ==
    /\ pc = "Executing"
    /\ ExecStep(0, 1, FALSE, "ExecutionFailure")

(* The top of the stack, the value a successful call hands to its caller. *)
Result == IF Len(stack) > 0 THEN Top(stack) ELSE Nil

(* The host takes the outcome of the call (the returned value, or the      *)
(* error its protected call caught) and the entry point's frame is gone.   *)
Collect ==
    /\ pc \in Finals
    /\ pc' = "idle"
    /\ prev' = [pc |-> pc, unit |-> loaded, g0 |-> g0,
                val |-> IF pc = "Done" THEN Result ELSE Nil, raised |-> raised]
    /\ stack' = <<>>
    /\ base' = <<>>
    /\ path' = <<>>
    /\ caller' = "C"
    /\ g0' = 0
    /\ loaded' = 0
    /\ usedPath' = <<>>
    /\ nload' = 0
    /\ nexec' = 0
    /\ callArgs' = <<0, 0>>
    /\ raised' = <<>>
    /\ ret' = 0
    /\ lstatus' = ""
    /\ xstatus' = ""
    /\ UNCHANGED <<G, fs, calls>>

(* The environment replaces the file at the module path. *)
WriteFile(c) ==
    /\ fs[ModulePath] # c
    /\ fs' = [fs EXCEPT ![ModulePath] = c]
    /\ UNCHANGED <<pc, stack, base, path, caller, G, g0, loaded, usedPath,
                   nload, nexec, callArgs, raised, ret, lstatus, xstatus,
                   calls, prev>>

Next ==
    \/ \E entry \in EntryStacks, c \in Callers : Call(entry, c)
    \/ LoadOk
    \/ LoadFail
    \/ ExecOk
    \/ ExecFail
    \/ Collect
    \/ \E c \in FileContents : WriteFile(c)

Spec == Init /\ [][Next]_vars

(* The entry point runs to its end once entered: its steps are not         *)
(* suspended.                                                              *)
FairSpec == Spec /\ WF_vars(LoadOk \/ LoadFail \/ ExecOk \/ ExecFail)

----------------------------------------------------------------------------
(* Properties *)

Failures == {"ParseFailure", "ExecutionFailure"}

(* The first value the top-level code of unit u yields when run with the   *)
(* global at g; Nil when it yields none.                                   *)
Produced(u, g) ==
    CASE Units[u].kind = "ret" ->
             IF Units[u].rets = <<>> THEN Nil ELSE Units[u].rets[1]
      [] Units[u].kind = "counter"  -> N(Units[u].init + 1)
      [] Units[u].kind = "gcounter" -> N(g + 1)
      [] OTHER -> Nil

(* C1: whenever the load succeeded and the run raised no fault, the call   *)
(* has returned 1 and the value on top of the stack is the value the unit  *)
(* produced.                                                               *)
C1_SuccessPath ==
    /\ (lstatus = "LUA_OK" /\ xstatus = "LUA_OK") =>
           /\ pc = "Done"
           /\ ret = 1
           /\ Len(stack) > 0
           /\ Top(stack) = Produced(loaded, g0)
    /\ pc = "Done" => (lstatus = "LUA_OK" /\ xstatus = "LUA_OK")

C1_Witness ==
    /\ pc = "Done"
    /\ loaded = 1
    /\ ret = 1
    /\ Top(stack) = T(1)

(* C2: a step that leaves Parsing while the file at the module path is not *)
(* a loadable unit ends the call in ParseFailure, with the message made of *)
(* the load prefix and the diagnostic of that file, and without any run;   *)
(* and once the load has failed the unit is never run in that call.        *)
C2_LoadFailure ==
    /\ [][(pc = "Parsing" /\ pc' # "Parsing" /\ fs[ModulePath].k # "unit") =>
            /\ pc' = "ParseFailure"
            /\ raised' = Where(caller) \o <<LoadPrefix>>
                           \o LoadDiag(ModulePath, fs[ModulePath].k)
            /\ nexec' = 0
            /\ ret' = 0]_vars
    /\ [](lstatus \notin {"", "LUA_OK"} =>
            /\ pc = "ParseFailure"
            /\ nexec = 0
            /\ xstatus = ""
            /\ ret = 0)
    /\ [](pc = "ParseFailure" => lstatus \in {"LUA_ERRFILE", "LUA_ERRSYNTAX"})

C2_Witness ==
    /\ pc = "ParseFailure"
    /\ lstatus = "LUA_ERRFILE"
    /\ raised = <<LoadPrefix, "cannot open ",
                  "/usr/local/share/lua/5.1/dawn_db.luac",
                  ": No such file or directory">>
    /\ nexec = 0

(* C3: when the loaded unit raised a fault, the call ends in               *)
(* ExecutionFailure, returns no value, and the raised message is the run   *)
(* prefix followed by the fault's own message, not a placeholder.          *)
C3_RuntimeFault ==
    (lstatus = "LUA_OK" /\ xstatus \notin {"", "LUA_OK"}) =>
        /\ pc = "ExecutionFailure"
        /\ ret = 0
        /\ LoadPrefix \notin {raised[i] : i \in DOMAIN raised}
        /\ raised[Len(raised)] # "(null)"
        /\ LET e == Units[loaded].err IN
           /\ e.t = "string" => raised = Where(caller) \o <<RunPrefix>> \o e.s
           /\ e.t = "number" =>
                 raised = Where(caller) \o <<RunPrefix, ToString(e.n)>>

C5_Ordering ==
    /\ [][(pc' # pc) =>
            <<pc, pc'>> \in ({<<"idle", "Parsing">>,
                              <<"Parsing", "Executing">>,
                              <<"Parsing", "ParseFailure">>,
                              <<"Executing", "Done">>,
                              <<"Executing", "ExecutionFailure">>}
                             \cup {<<f, "idle">> : f \in Finals})]_vars
    /\ [](nexec > 0 => (lstatus = "LUA_OK" /\ nload = 1))
    /\ [](pc = "Executing" => (lstatus = "LUA_OK" /\ nexec = 0))
    /\ [](pc = "Done" => (nload = 1 /\ nexec = 1 /\ callArgs[1] = 0))

C5_Witness ==
    /\ pc = "Done"
    /\ nload = 1
    /\ nexec = 1
    /\ callArgs = <<0, 1>>

(* C6: a call loads at most once and runs at most once; after a failure    *)
(* nothing more is loaded or run in that call; a finished call is in       *)
(* exactly one of: returned 1 with no error, ParseFailure, or              *)
(* ExecutionFailure, the last two with no value returned.                  *)
C6_NoRetry ==
    /\ [](nload <= 1 /\ nexec <= 1)
    /\ [][(pc \in Failures) =>
            (pc' = "idle" \/ (pc' = pc /\ nload' = nload /\ nexec' = nexec
                                     /\ raised' = raised /\ ret' = ret))]_vars
    /\ [](ret = 1 <=> pc = "Done")
    /\ [](raised # <<>> <=> pc \in Failures)
    /\ [](pc = "ParseFailure" =>
            (nload = 1 /\ nexec = 0
             /\ {LoadPrefix, RunPrefix} \cap {raised[i] : i \in DOMAIN raised}
                  = {LoadPrefix}))
    /\ [](pc = "ExecutionFailure" =>
            (nload = 1 /\ nexec = 1
             /\ {LoadPrefix, RunPrefix} \cap {raised[i] : i \in DOMAIN raised}
                  = {RunPrefix}))

C6_Witness ==
    /\ pc = "ExecutionFailure"
    /\ loaded = 4
    /\ nload = 1
    /\ nexec = 1
    /\ ret = 0

(* C7: inside a call the path is the literal, and the path handed to       *)
(* luaL_loadfile is that literal, whatever the arguments on the stack, the *)
(* globals of the context or the calls made before.                        *)
C7_FixedPath ==
    /\ pc # "idle" => path = ModulePath
    /\ nload > 0 => usedPath = ModulePath
    /\ loaded # AltUnit

C7_Witness ==
    /\ calls >= 2
    /\ nload = 1
    /\ usedPath = ModulePath
    /\ base = <<S(<<"dawn_db">>), S(AltPath)>>
    /\ G > 0

(* C9: a successful call returned 1 and left exactly one value more than   *)
(* at entry on the stack, whatever number of values the unit yielded: nil  *)
(* for none, the first of several; the entries below are as at entry.      *)
C9_OneValue ==
    pc = "Done" =>
        /\ ret = 1
        /\ Len(stack) = Len(base) + 1
        /\ SubSeq(stack, 1, Len(base)) = base
        /\ (Units[loaded].kind = "ret" /\ Units[loaded].rets = <<>>) =>
               Top(stack) = Nil
        /\ (Units[loaded].kind = "ret" /\ Len(Units[loaded].rets) > 1) =>
               Top(stack) = Units[loaded].rets[1]

C9_Witness ==
    /\ pc = "Done"
    /\ loaded = 3
    /\ Len(base) = 2
    /\ stack = base \o <<T(1)>>

(* C10: every call that has been entered reaches Done or a failure exit,   *)
(* after at most two steps of the entry point.                             *)
C10_Termination ==
    /\ (pc \in {"Parsing", "Executing"}) ~> (pc \in Finals)
    /\ [](nload + nexec <= 2)

C10_Witness ==
    /\ pc = "ParseFailure"
    /\ calls = MaxCalls
    /\ nload + nexec = 1

TypeOK ==
    /\ pc \in {"idle", "Parsing", "Executing"} \cup Finals
    /\ calls \in 0 .. MaxCalls
    /\ ret \in {0, 1}

====
